---- MODULE Spec2Model ----
(***************************************************************************)
(* Model of drivers/video/fbdev/exynos/dpu_7885/decon_board.c: the action  *)
(* list builder (make_list, decide_type, decide_subinfo), the named timers *)
(* (find_timer), the list cache (find_list) and the executor (do_list),    *)
(* driven through the public entry point run_list.                         *)
(*                                                                         *)
(* Strings are TLA+ strings read character by character with SubSeq.       *)
(* A timestamp of local_clock() is a u64 count of nanoseconds; it is kept  *)
(* as a record [ms, ns] with 0 <= ns < NSEC_PER_MSEC, because the values   *)
(* the code compares (a delay of up to 99999999 ms, UINT_MAX microseconds) *)
(* do not fit the integers of the model checker as one number.             *)
(***************************************************************************)
EXTENDS Integers, Sequences, FiniteSets, TLC

(***************************************************************************)
(* Program constants.                                                      *)
(***************************************************************************)
SMALL_MSECS == 20
USEC_PER_MSEC == 1000
NSEC_PER_MSEC == 1000000
NSEC_PER_USEC == 1000
\* UINT_MAX = 4294967295 microseconds, as whole milliseconds and the rest
UINT_MAX_MSEC == 4294967
UINT_MAX_USEC_REST == 295
\* ARRAY_SIZE(dt_nodes)
DT_NODES_SIZE == 10
EINVAL == 22
ENODEV == 19
EBUSY == 16
\* the width of "%8d"
FIELD_WIDTH == 8

ACTION_DUMMY == 0
ACTION_GPIO_HIGH == 1
ACTION_GPIO_LOW == 2
ACTION_REGULATOR_ENABLE == 3
ACTION_REGULATOR_DISABLE == 4
ACTION_DELAY_MDELAY == 5
ACTION_DELAY_MSLEEP == 6
ACTION_DELAY_USLEEP == 7
ACTION_PINCTRL == 8
ACTION_TIMER_START == 9
ACTION_TIMER_DELAY == 10
ACTION_TIMER_CLEAR == 11
ACTION_MAX == 12

action_list ==
    [i \in ACTION_GPIO_HIGH..(ACTION_MAX - 1) |->
        CASE i = ACTION_GPIO_HIGH -> "gpio,high"
          [] i = ACTION_GPIO_LOW -> "gpio,low"
          [] i = ACTION_REGULATOR_ENABLE -> "regulator,enable"
          [] i = ACTION_REGULATOR_DISABLE -> "regulator,disable"
          [] i = ACTION_DELAY_MDELAY -> "delay,mdelay"
          [] i = ACTION_DELAY_MSLEEP -> "delay,msleep"
          [] i = ACTION_DELAY_USLEEP -> "delay,usleep"
          [] i = ACTION_PINCTRL -> "pinctrl"
          [] i = ACTION_TIMER_START -> "timer,start"
          [] i = ACTION_TIMER_DELAY -> "timer,delay"
          [] OTHER -> "timer,clear"]

\* a NULL char pointer (a field of a kzalloc'ed action that was never set)
NULL == "(null)"

(***************************************************************************)
(* Strings.                                                                *)
(***************************************************************************)
Char(s, i) == SubSeq(s, i, i)

\* STREQ(a, b): *(a) == *(b) && strcmp(a, b) == 0
STREQ(a, b) == a = b

\* STRNEQ(a, b): strncmp(a, b, strlen(a)) == 0, that is, a is a prefix of b
STRNEQ(a, b) == Len(b) >= Len(a) /\ SubSeq(b, 1, Len(a)) = a

isdigit(c) == c \in {"0", "1", "2", "3", "4", "5", "6", "7", "8", "9"}

isspace(c) == c \in {" ", "\t", "\n"}

\* the value of a character as a digit of some base; 99 when it is none
DigitValue(c) ==
    IF \E d \in 1..16 : Char("0123456789abcdef", d) = c
    THEN (CHOOSE d \in 1..16 : Char("0123456789abcdef", d) = c) - 1
    ELSE IF \E d \in 11..16 : Char("0123456789ABCDEF", d) = c
    THEN (CHOOSE d \in 11..16 : Char("0123456789ABCDEF", d) = c) - 1
    ELSE 99

\* skip_spaces(s): the position of the first character at or after p that is
\* no white space (Len(s) + 1 at the end of the string)
RECURSIVE skip_spaces(_, _)
skip_spaces(s, p) ==
    IF p <= Len(s) /\ isspace(Char(s, p)) THEN skip_spaces(s, p + 1) ELSE p

\* the position after the run of digits of the base that starts at p
RECURSIVE DigitsEnd(_, _, _)
DigitsEnd(s, p, base) ==
    IF p <= Len(s) /\ DigitValue(Char(s, p)) < base
    THEN DigitsEnd(s, p + 1, base)
    ELSE p

\* the number written by the digits s[p..q-1] in the base
RECURSIVE DigitsNumber(_, _, _, _, _)
DigitsNumber(s, p, q, base, acc) ==
    IF p >= q THEN acc
    ELSE DigitsNumber(s, p + 1, q, base, acc * base + DigitValue(Char(s, p)))

\* one "%8d" conversion of vsscanf at position p: white space is skipped, a
\* decimal number is read (simple_strtol) and cut back to the field width.
\* [ok, val, next]; the strings of the model carry no sign.
ScanInt(s, p) ==
    LET field(q, e) == IF e - q > FIELD_WIDTH THEN q + FIELD_WIDTH ELSE e
        number(q, n) ==
            [ok |-> TRUE, val |-> DigitsNumber(s, q, n, 10, 0), next |-> n]
        at(q) == IF q > Len(s) \/ ~isdigit(Char(s, q))
                 THEN [ok |-> FALSE, val |-> 0, next |-> q]
                 ELSE number(q, field(q, DigitsEnd(s, q, 10)))
    IN at(skip_spaces(s, p))

\* one "%s" conversion of vsscanf at position p: white space is skipped and
\* the characters up to the next white space are copied. [ok, str, next]
RECURSIVE WordEnd(_, _)
WordEnd(s, p) ==
    IF p <= Len(s) /\ ~isspace(Char(s, p)) THEN WordEnd(s, p + 1) ELSE p

ScanWord(s, p) ==
    LET word(q, e) == [ok |-> TRUE, str |-> SubSeq(s, q, e - 1), next |-> e]
        at(q) == word(q, WordEnd(s, q))
    IN IF p > Len(s)
       THEN [ok |-> FALSE, str |-> "", next |-> p]
       ELSE at(skip_spaces(s, p))

\* sscanf(subinfo, "%8d %8d", &d0, &d1): [num, d0, d1]; a conversion that
\* does not happen leaves its target as it was (zero, from kzalloc)
sscanf_d_d(s) ==
    LET second(a) == IF a.ok /\ skip_spaces(s, a.next) <= Len(s)
                     THEN ScanInt(s, a.next)
                     ELSE [ok |-> FALSE, val |-> 0, next |-> a.next]
        both(a, b) ==
            [num |-> (IF a.ok THEN 1 ELSE 0) + (IF b.ok THEN 1 ELSE 0),
             d0 |-> a.val,
             d1 |-> b.val]
        first(a) == both(a, second(a))
    IN first(ScanInt(s, 1))

\* sscanf(subinfo, "%s %8d\n", timer_name, &delay): [num, name, delay]
sscanf_s_d(s) ==
    LET second(a) == IF a.ok /\ skip_spaces(s, a.next) <= Len(s)
                     THEN ScanInt(s, a.next)
                     ELSE [ok |-> FALSE, val |-> 0, next |-> a.next]
        both(a, b) ==
            [num |-> (IF a.ok THEN 1 ELSE 0) + (IF b.ok THEN 1 ELSE 0),
             name |-> a.str,
             delay |-> b.val]
        first(a) == both(a, second(a))
    IN first(ScanWord(s, 1))

\* kstrtouint(s, 0, &res): the base is taken from the prefix, the whole
\* string must be a number, with one trailing newline allowed. [ret, val]
kstrtouint(s) ==
    LET hex == /\ Len(s) >= 3
               /\ Char(s, 1) = "0"
               /\ Char(s, 2) \in {"x", "X"}
               /\ DigitValue(Char(s, 3)) < 16
        rest(e) == IF e <= Len(s) /\ Char(s, e) = "\n" THEN e + 1 ELSE e
        parse(base, p, e) ==
            IF e = p \/ rest(e) <= Len(s)
            THEN [ret |-> -EINVAL, val |-> 0]
            ELSE [ret |-> 0, val |-> DigitsNumber(s, p, e, base, 0)]
        digits(base, p) == parse(base, p, DigitsEnd(s, p, base))
    IN digits(IF Len(s) >= 1 /\ Char(s, 1) = "0"
              THEN (IF hex THEN 16 ELSE 8)
              ELSE 10,
              IF hex THEN 3 ELSE 1)

(***************************************************************************)
(* Time: a u64 of nanoseconds as [ms, ns].                                 *)
(***************************************************************************)
Time(ms, ns) == [ms |-> ms, ns |-> ns]

TimeZero == Time(0, 0)

TimeAddMsec(t, ms) == Time(t.ms + ms, t.ns)

TimeAddNsec(t, ns) ==
    Time(t.ms + ((t.ns + ns) \div NSEC_PER_MSEC), (t.ns + ns) % NSEC_PER_MSEC)

TimeAddUsec(t, us) ==
    TimeAddNsec(TimeAddMsec(t, us \div USEC_PER_MSEC),
                (us % USEC_PER_MSEC) * NSEC_PER_USEC)

TimeLess(a, b) == a.ms < b.ms \/ (a.ms = b.ms /\ a.ns < b.ns)

\* a - b for b <= a
TimeSub(a, b) ==
    IF a.ns >= b.ns
    THEN Time(a.ms - b.ms, a.ns - b.ns)
    ELSE Time(a.ms - b.ms - 1, a.ns + NSEC_PER_MSEC - b.ns)

(***************************************************************************)
(* Bounds of the model.                                                    *)
(***************************************************************************)
\* the longest declaration, in (type, subinfo) pairs
MaxPairs == 2
\* run_list is called while the clock is below this many milliseconds
MaxClockMsec == 40
\* how often time passes that no action asked for: between two calls of
\* run_list, or in sleeps that last longer than asked
MaxTicks == 3

(***************************************************************************)
(* The board: the device tree and the hardware behind it.  The names are   *)
(* those of the example in the header comment of decon_board.c.            *)
(***************************************************************************)
SeqNames == {"subnode_1", "subnode_2"}

\* of_get_named_gpio(np->parent, subinfo, 0): the number of the GPIO that
\* the property names, or a negative errno
of_get_named_gpio(subinfo) ==
    IF subinfo = "gpio_lcd_en" THEN 5 ELSE -EINVAL

gpio_is_valid(gpio) == gpio >= 0

\* regulator_bulk_get(NULL, 1, supply)
regulator_bulk_get(subinfo) ==
    IF subinfo = "ldo1" THEN 0 ELSE -ENODEV

\* pinctrl_lookup_state(pins, subinfo) finds a state of pinctrl-names
pinctrl_lookup_state(subinfo) ==
    IF subinfo \in {"pin_off", "pin_on"} THEN subinfo ELSE NULL

(***************************************************************************)
(* The state.                                                              *)
(***************************************************************************)
VARIABLES
    dts,        \* the device tree: [board, sub], sub[name] = [node, prop, type]
    lcdtype,    \* extern unsigned int lcdtype
    dt_nodes,   \* static struct dt_node_info *dt_nodes[10], the filled prefix
    timers,     \* the timer_info objects allocated by find_timer
    clock,      \* local_clock()
    status,     \* "run", or how the kernel stopped: "BUG" or "fault"
    timer_ops,  \* per timer, the idx of the last action executed on it (history)
    nticks,     \* how often time passed that no action asked for (history)
    last        \* what the run_list call of the last step did (history)

vars == <<dts, lcdtype, dt_nodes, timers, clock, status, timer_ops, nticks, last>>

\* kzalloc(sizeof(struct action_info)): every field zero
ZeroAction ==
    [type |-> NULL, subinfo |-> NULL, idx |-> ACTION_DUMMY, gpio |-> 0,
     delay |-> <<0, 0>>, supply |-> NULL, state |-> NULL, timer |-> 0]

\* kzalloc(sizeof(struct timer_info)) and timer->name = kstrdup(name)
ZeroTimer(name) ==
    [name |-> name, start |-> TimeZero, end |-> TimeZero, now |-> TimeZero,
     delay |-> 0]

(***************************************************************************)
(* find_timer.  action->type of a placeholder action is NULL, and          *)
(* strncmp("timer", NULL, 5) reads through it: nullrd says whether that    *)
(* read faults or yields bytes that do not compare equal.                  *)
(***************************************************************************)
\* list_for_each_entry over one list from position k: "none", "found" or
\* "fault", with the timer found
RECURSIVE find_timer_in_list(_, _, _, _, _)
find_timer_in_list(list, k, name, heap, nullrd) ==
    IF k > Len(list) THEN [res |-> "none", timer |-> 0]
    ELSE LET action == list[k] IN
         IF action.type = NULL
         THEN (IF nullrd THEN [res |-> "fault", timer |-> 0]
               ELSE find_timer_in_list(list, k + 1, name, heap, nullrd))
         ELSE IF /\ STRNEQ("timer", action.type)
                 /\ action.timer # 0
                 /\ STREQ(heap[action.timer].name, name)
         THEN [res |-> "found", timer |-> action.timer]
         ELSE find_timer_in_list(list, k + 1, name, heap, nullrd)

\* the while loop over dt_nodes[idx], idx counted from 0
RECURSIVE find_timer_from(_, _, _, _, _)
find_timer_from(idx, name, nodes, heap, nullrd) ==
    IF idx >= Len(nodes)
    THEN [res |-> "create", timer |-> 0]
    ELSE LET searched(r) ==
                 IF r.res # "none" THEN r
                 ELSE IF idx + 1 = DT_NODES_SIZE
                 THEN [res |-> "BUG", timer |-> 0]
                 ELSE find_timer_from(idx + 1, name, nodes, heap, nullrd)
         IN searched(find_timer_in_list(nodes[idx + 1].node, 1, name, heap,
                                        nullrd))

\* for comparison: a timer is allocated without a look at the lists
find_timer_always_creates(name, nodes, heap, nullrd) ==
    [stop |-> "", timer |-> Len(heap) + 1,
     heap |-> Append(heap, ZeroTimer(name))]

\* [stop, timer, heap]: stop is "" or the way the kernel stopped
find_timer(name, nodes, heap, nullrd) ==
    LET searched(r) ==
            CASE r.res = "found" ->
                    [stop |-> "", timer |-> r.timer, heap |-> heap]
              [] r.res = "create" ->
                    [stop |-> "", timer |-> Len(heap) + 1,
                     heap |-> Append(heap, ZeroTimer(name))]
              [] OTHER -> [stop |-> r.res, timer |-> 0, heap |-> heap]
    IN searched(find_timer_from(0, name, nodes, heap, nullrd))

(***************************************************************************)
(* decide_type: [ret, idx]                                                 *)
(***************************************************************************)
decide_type_is_empty(type) == type = NULL \/ type = ""

decide_type(type) ==
    IF decide_type_is_empty(type)
    THEN [ret |-> 0, idx |-> ACTION_DUMMY]
    ELSE LET decided(idx) ==
                 IF idx = ACTION_DUMMY \/ idx = ACTION_MAX
                 THEN [ret |-> -EINVAL, idx |-> ACTION_DUMMY]
                 ELSE [ret |-> 0, idx |-> idx]
             first(hits) ==
                 decided(IF STRNEQ("pinctrl", type) THEN ACTION_PINCTRL
                         ELSE IF hits = {} THEN ACTION_DUMMY
                         ELSE CHOOSE i \in hits : \A j \in hits : i <= j)
         IN first({i \in ACTION_GPIO_HIGH..(ACTION_MAX - 1) :
                      STRNEQ(action_list[i], type)})

(***************************************************************************)
(* decide_subinfo: [ret, stop, action, heap, calls]; calls holds the       *)
(* lookups made for the action: of_get_named_gpio, regulator_bulk_get,     *)
(* pinctrl_lookup_state, each with its name                                *)
(***************************************************************************)
\* for comparison: the checks without delay[0] > delay[1]
decide_usleep_unordered(subinfo) ==
    IF ~isdigit(Char(subinfo, 1))
    THEN [ret |-> -EINVAL, delay |-> <<0, 0>>]
    ELSE LET checked(ret, d0, d1) ==
                 [ret |-> IF d0 = 0 \/ d1 = 0 THEN -EINVAL
                          ELSE IF d0 >= SMALL_MSECS * USEC_PER_MSEC THEN -EINVAL
                          ELSE ret,
                  delay |-> <<d0, d1>>]
             filled(num, d0, d1, fill) ==
                 checked(IF num > 2 THEN -EINVAL ELSE num,
                         d0,
                         IF num < 2
                         THEN (IF d0 = fill THEN fill + 1 ELSE fill)
                         ELSE d1)
             scanned(sc) ==
                 filled(sc.num, sc.d0, sc.d1, sc.d0 + (sc.d0 \div 2))
         IN scanned(sscanf_d_d(subinfo))

\* case ACTION_DELAY_USLEEP: [ret, delay]
decide_usleep(subinfo) ==
    IF ~isdigit(Char(subinfo, 1))
    THEN [ret |-> -EINVAL, delay |-> <<0, 0>>]
    ELSE LET checked(ret, d0, d1) ==
                 [ret |-> IF d0 = 0 \/ d1 = 0 THEN -EINVAL
                          ELSE IF d0 > d1 THEN -EINVAL
                          ELSE IF d0 >= SMALL_MSECS * USEC_PER_MSEC THEN -EINVAL
                          ELSE ret,
                  delay |-> <<d0, d1>>]
             filled(num, d0, d1, fill) ==
                 checked(IF num > 2 THEN -EINVAL ELSE num,
                         d0,
                         IF num < 2
                         THEN (IF d0 = fill THEN fill + 1 ELSE fill)
                         ELSE d1)
             scanned(sc) ==
                 filled(sc.num, sc.d0, sc.d1, sc.d0 + (sc.d0 \div 2))
         IN scanned(sscanf_d_d(subinfo))

\* case ACTION_TIMER_START
decide_timer_start(action, nodes, heap, nullrd) ==
    LET found(sc, ft) ==
            IF ft.stop # ""
            THEN [ret |-> 2, stop |-> ft.stop, action |-> action,
                  heap |-> heap, calls |-> <<>>]
            ELSE [ret |-> IF sc.delay < SMALL_MSECS THEN -EINVAL ELSE 2,
                  stop |-> "",
                  action |-> [action EXCEPT !.timer = ft.timer],
                  heap |-> [ft.heap EXCEPT ![ft.timer].delay = sc.delay],
                  calls |-> <<>>]
        scanned(sc) ==
            IF sc.num # 2
            THEN \* action->timer is NULL and action->timer->delay reads
                 \* through it
                 [ret |-> -EINVAL, stop |-> IF nullrd THEN "fault" ELSE "",
                  action |-> action, heap |-> heap, calls |-> <<>>]
            ELSE found(sc, find_timer(sc.name, nodes, heap, nullrd))
    IN scanned(sscanf_s_d(action.subinfo))

decide_subinfo(action, nodes, heap, nullrd) ==
    LET subinfo == action.subinfo
        idx == action.idx
        plain(ret, act) ==
            [ret |-> ret, stop |-> "", action |-> act, heap |-> heap,
             calls |-> <<>>]
        looked_up(fn, r) == [r EXCEPT !.calls = <<<<fn, subinfo>>>>]
        gpio_of(gpio) ==
            plain(IF gpio_is_valid(gpio) THEN 0 ELSE -EINVAL,
                  [action EXCEPT !.gpio = gpio])
        msecs(k) == plain(k.ret, [action EXCEPT !.delay = <<k.val, 0>>])
        usecs(u) == plain(u.ret, [action EXCEPT !.delay = u.delay])
        state_of(state) ==
            plain(IF state = NULL THEN -EINVAL ELSE 0,
                  [action EXCEPT !.state = state])
        timer_of(ft) ==
            [ret |-> 0, stop |-> ft.stop,
             action |-> [action EXCEPT !.timer = ft.timer],
             heap |-> ft.heap, calls |-> <<>>]
    IN
    IF subinfo = NULL \/ Len(subinfo) = 0 THEN plain(-EINVAL, action)
    ELSE CASE idx \in {ACTION_GPIO_HIGH, ACTION_GPIO_LOW} ->
                looked_up("of_get_named_gpio",
                          gpio_of(of_get_named_gpio(subinfo)))
           [] idx \in {ACTION_REGULATOR_ENABLE, ACTION_REGULATOR_DISABLE} ->
                looked_up("regulator_bulk_get",
                          plain(regulator_bulk_get(subinfo),
                                [action EXCEPT !.supply = subinfo]))
           [] idx \in {ACTION_DELAY_MDELAY, ACTION_DELAY_MSLEEP} ->
                IF ~isdigit(Char(subinfo, 1)) THEN plain(-EINVAL, action)
                ELSE msecs(kstrtouint(subinfo))
           [] idx = ACTION_DELAY_USLEEP ->
                usecs(decide_usleep(subinfo))
           [] idx = ACTION_PINCTRL ->
                looked_up("pinctrl_lookup_state",
                          state_of(pinctrl_lookup_state(subinfo)))
           [] idx = ACTION_TIMER_START ->
                decide_timer_start(action, nodes, heap, nullrd)
           [] idx \in {ACTION_TIMER_DELAY, ACTION_TIMER_CLEAR} ->
                timer_of(find_timer(subinfo, nodes, heap, nullrd))
           [] OTHER -> plain(-EINVAL, action)

(***************************************************************************)
(* make_list: [ret, stop, nodes, heap, calls].  lh is the position in      *)
(* nodes of the dt_node whose list is built; the list is in dt_nodes while *)
(* it is built, so find_timer sees the actions added so far.  calls holds  *)
(* the lookups of decide_subinfo in their order.  No modelled node has a   *)
(* "desc" property, so action->desc stays unset.                           *)
(***************************************************************************)
\* list_add, for comparison: the action goes to the head of the list
list_add_head(action, lh, nodes) ==
    [nodes EXCEPT ![lh].node = <<action>> \o @]

list_add_tail(action, lh, nodes) ==
    [nodes EXCEPT ![lh].node = Append(@, action)]

\* for comparison: the test without !lcdtype
make_list_skips_any_variant(lcd, type) ==
    ~STRNEQ("delay", type) /\ ~STRNEQ("timer", type)

\* for comparison: no pair is skipped
make_list_skips_nothing(lcd, type) == FALSE

\* the test that skips a pair when no panel is attached
make_list_skips(lcd, type) ==
    lcd = 0 /\ ~STRNEQ("delay", type) /\ ~STRNEQ("timer", type)

RECURSIVE make_list_loop(_, _, _, _, _, _, _, _)
make_list_loop(strs, i, count, ret, lh, nodes, heap, nullrd) ==
    IF i >= count
    THEN [ret |-> ret, stop |-> "", nodes |-> nodes, heap |-> heap,
          calls |-> <<>>]
    ELSE LET type == strs[i * 2 + 1]
             subinfo == strs[i * 2 + 2]
             after(calls, r) == [r EXCEPT !.calls = calls \o @]
             subinfo_decided(ds) ==
                 IF ds.stop # "" \/ ds.ret < 0
                 THEN [ret |-> ds.ret, stop |-> ds.stop, nodes |-> nodes,
                       heap |-> ds.heap, calls |-> ds.calls]
                 ELSE after(ds.calls,
                            make_list_loop(strs, i + 1, count, ds.ret, lh,
                                           list_add_tail(ds.action, lh, nodes),
                                           ds.heap, nullrd))
             type_decided(dt) ==
                 IF dt.ret < 0
                 THEN [ret |-> dt.ret, stop |-> "", nodes |-> nodes,
                       heap |-> heap, calls |-> <<>>]
                 ELSE subinfo_decided(
                        decide_subinfo([ZeroAction EXCEPT !.type = type,
                                                          !.subinfo = subinfo,
                                                          !.idx = dt.idx],
                                       nodes, heap, nullrd))
         IN
         IF make_list_skips(lcdtype, type)
         THEN make_list_loop(strs, i + 1, count, ret, lh, nodes, heap, nullrd)
         ELSE type_decided(decide_type(type))

\* of_property_count_strings(np, "type")
of_property_count_strings(sub) ==
    IF sub.prop /\ Len(sub.type) > 0 THEN Len(sub.type) ELSE -EINVAL

\* for comparison: the test without count % 2
make_list_count_invalid_even_only(count) == count < 0 \/ count = 0

\* count < 0 || !count || count % 2
make_list_count_invalid(count) == count < 0 \/ count = 0 \/ count % 2 # 0

make_list(name, lh, nodes, heap, nullrd) ==
    LET sub == dts.sub[name]
        count == of_property_count_strings(sub)
        dummy == [ret |-> -EINVAL, stop |-> "",
                  nodes |-> list_add_tail(ZeroAction, lh, nodes),
                  heap |-> heap, calls |-> <<>>]
    IN
    IF ~dts.board \/ ~sub.node THEN dummy
    ELSE IF make_list_count_invalid(count) THEN dummy
    ELSE LET looped(r) ==
                 IF r.stop = "" /\ r.ret < 0 THEN [r EXCEPT !.stop = "BUG"]
                 ELSE r
         IN looped(make_list_loop(sub.type, 0, count \div 2, 0, lh, nodes,
                                  heap, nullrd))

(***************************************************************************)
(* dump_list: the five counters of the summary line                        *)
(***************************************************************************)
CountIdx(list, idxs) == Cardinality({k \in 1..Len(list) : list[k].idx \in idxs})

\* for comparison: the switch without case ACTION_PINCTRL
dump_list_without_pinctrl(list) ==
    [gpio |-> CountIdx(list, {ACTION_GPIO_HIGH, ACTION_GPIO_LOW}),
     regulator |-> CountIdx(list, {ACTION_REGULATOR_ENABLE,
                                   ACTION_REGULATOR_DISABLE}),
     delay |-> CountIdx(list, {ACTION_DELAY_MDELAY, ACTION_DELAY_MSLEEP,
                               ACTION_DELAY_USLEEP}),
     pinctrl |-> 0,
     timer |-> CountIdx(list, {ACTION_TIMER_START, ACTION_TIMER_DELAY,
                               ACTION_TIMER_CLEAR})]

dump_list(list) ==
    [gpio |-> CountIdx(list, {ACTION_GPIO_HIGH, ACTION_GPIO_LOW}),
     regulator |-> CountIdx(list, {ACTION_REGULATOR_ENABLE,
                                   ACTION_REGULATOR_DISABLE}),
     delay |-> CountIdx(list, {ACTION_DELAY_MDELAY, ACTION_DELAY_MSLEEP,
                               ACTION_DELAY_USLEEP}),
     pinctrl |-> CountIdx(list, {ACTION_PINCTRL}),
     timer |-> CountIdx(list, {ACTION_TIMER_START, ACTION_TIMER_DELAY,
                               ACTION_TIMER_CLEAR})]

(***************************************************************************)
(* do_list.                                                                *)
(***************************************************************************)
NoSleep == [fn |-> "none", lo |-> 0, hi |-> 0]

Sleep(fn, lo, hi) == [fn |-> fn, lo |-> lo, hi |-> hi]

\* the clock after a sleep that lasts the time asked for and slack
\* nanoseconds more: mdelay and msleep take milliseconds, usleep_range
\* microseconds (it may wake at its lower limit)
ClockAfter(now, sleep, slack) ==
    CASE sleep.fn = "none" -> now
      [] sleep.fn = "usleep_range" -> TimeAddNsec(TimeAddUsec(now, sleep.lo), slack)
      [] OTHER -> TimeAddNsec(TimeAddMsec(now, sleep.lo), slack)

\* us_delta = ktime_us_delta(end, now) for end > now, as [ms, us]: whole
\* milliseconds and the microseconds left
ktime_us_delta(end, now) ==
    LET d == TimeSub(end, now) IN [ms |-> d.ms, us |-> d.ns \div NSEC_PER_USEC]

\* !us_delta || us_delta > UINT_MAX
timer_delay_breaks(us_delta) ==
    \/ (us_delta.ms = 0 /\ us_delta.us = 0)
    \/ us_delta.ms > UINT_MAX_MSEC
    \/ (us_delta.ms = UINT_MAX_MSEC /\ us_delta.us > UINT_MAX_USEC_REST)

\* end > now
timer_delay_pending(timer, now) == TimeLess(now, timer.end)

\* for comparison: an elapsed timer treated like one that was never started
timer_delay_sleeps_when_elapsed(timer, now) ==
    IF timer.end = TimeZero \/ ~timer_delay_pending(timer, now)
    THEN [brk |-> FALSE, sleep |-> Sleep("msleep", timer.delay, 0)]
    ELSE LET us_delta == ktime_us_delta(timer.end, now)
             us == us_delta.ms * USEC_PER_MSEC + us_delta.us
         IN IF timer_delay_breaks(us_delta)
            THEN [brk |-> TRUE, sleep |-> NoSleep]
            ELSE IF us_delta.ms < SMALL_MSECS
            THEN [brk |-> FALSE,
                  sleep |-> Sleep("usleep_range", us, us + (us \div 2))]
            ELSE [brk |-> FALSE, sleep |-> Sleep("msleep", us_delta.ms, 0)]

\* case ACTION_TIMER_DELAY up to the fall through: [brk, sleep]; brk says
\* that the break in the middle of the case was taken
timer_delay(timer, now) ==
    IF timer.end = TimeZero
    THEN [brk |-> FALSE, sleep |-> Sleep("msleep", timer.delay, 0)]
    ELSE IF timer_delay_pending(timer, now)
    THEN LET us_delta == ktime_us_delta(timer.end, now)
             us == us_delta.ms * USEC_PER_MSEC + us_delta.us
         IN IF timer_delay_breaks(us_delta)
            THEN [brk |-> TRUE, sleep |-> NoSleep]
            ELSE IF us_delta.ms < SMALL_MSECS
            THEN [brk |-> FALSE,
                  sleep |-> Sleep("usleep_range", us, us + (us \div 2))]
            ELSE [brk |-> FALSE, sleep |-> Sleep("msleep", us_delta.ms, 0)]
    ELSE [brk |-> FALSE, sleep |-> NoSleep]

\* case ACTION_TIMER_CLEAR
timer_clear(timer) == [timer EXCEPT !.end = TimeZero]

\* case ACTION_TIMER_START
timer_start(timer, now) ==
    [timer EXCEPT !.start = now, !.end = TimeAddMsec(now, timer.delay)]

\* one turn of the loop of do_list on the action at position k:
\* [ret, heap, now, entry]; fails holds the positions whose hardware
\* request the hardware rejects in this call; gpio_free of the entry says
\* that the turn called gpio_free(action->gpio)
do_action(action, k, ret, heap, now, ops, fails, slack) ==
    LET idx == action.idx
        tm == IF action.timer # 0 THEN heap[action.timer] ELSE ZeroTimer("")
        entry(hw, sleep, after) ==
            [pos |-> k, idx |-> idx, type |-> action.type,
             subinfo |-> action.subinfo, hw |-> hw, sleep |-> sleep,
             t0 |-> now, t1 |-> ClockAfter(now, sleep, slack),
             timer |-> action.timer, before |-> tm, after |-> after,
             prev |-> IF action.timer # 0 THEN ops[action.timer] ELSE 0,
             gpio_free |-> FALSE]
        out(r, h, e) == [ret |-> r, heap |-> h, now |-> e.t1, entry |-> e]
        settimer(t) == [heap EXCEPT ![action.timer] = t]
    IN
    CASE idx \in {ACTION_GPIO_HIGH, ACTION_GPIO_LOW} ->
            \* gpio_request_one, then gpio_free whatever the request returned
            LET r == IF k \in fails THEN -EBUSY ELSE 0 IN
            out(r, heap, [entry(r, NoSleep, tm) EXCEPT !.gpio_free = TRUE])
      [] idx \in {ACTION_REGULATOR_ENABLE, ACTION_REGULATOR_DISABLE} ->
            LET r == IF k \in fails THEN -EINVAL ELSE 0 IN
            out(r, heap, entry(r, NoSleep, tm))
      [] idx = ACTION_DELAY_MDELAY ->
            out(ret, heap, entry(0, Sleep("mdelay", action.delay[1], 0), tm))
      [] idx = ACTION_DELAY_MSLEEP ->
            out(ret, heap, entry(0, Sleep("msleep", action.delay[1], 0), tm))
      [] idx = ACTION_DELAY_USLEEP ->
            out(ret, heap,
                entry(0, Sleep("usleep_range", action.delay[1], action.delay[2]), tm))
      [] idx = ACTION_PINCTRL ->
            out(ret, heap, entry(0, NoSleep, tm))
      [] idx = ACTION_TIMER_START ->
            LET t == timer_start(tm, now) IN
            out(ret, settimer(t), entry(0, NoSleep, t))
      [] idx = ACTION_TIMER_DELAY ->
            LET delayed(sleep, t) == out(ret, settimer(t), entry(0, sleep, t))
                stamped(t, d) ==
                    delayed(d.sleep, IF d.brk THEN t ELSE timer_clear(t))
            IN stamped([tm EXCEPT !.now = now],
                       timer_delay([tm EXCEPT !.now = now], now))
      [] idx = ACTION_TIMER_CLEAR ->
            LET t == timer_clear(tm) IN
            out(ret, settimer(t), entry(0, NoSleep, t))
      [] idx = ACTION_DUMMY ->
            out(ret, heap, entry(0, NoSleep, tm))
      [] OTHER ->
            out(-EINVAL, heap, entry(0, NoSleep, tm))

\* list_for_each_entry(action, lh, node) from position k:
\* [ret, heap, now, exec, ops]
RECURSIVE do_list_loop(_, _, _, _, _, _, _, _, _)
do_list_loop(list, k, ret, heap, now, exec, ops, fails, slack) ==
    IF k > Len(list)
    THEN [ret |-> ret, heap |-> heap, now |-> now, exec |-> exec, ops |-> ops]
    ELSE LET ops2 == IF list[k].timer # 0
                     THEN [ops EXCEPT ![list[k].timer] = list[k].idx]
                     ELSE ops
             done(r) == do_list_loop(list, k + 1, r.ret, r.heap, r.now,
                                     Append(exec, r.entry), ops2, fails, slack)
         IN done(do_action(list[k], k, ret, heap, now, ops, fails, slack))

\* [ret, stop, heap, now, exec, ops]
do_list(list, heap, now, ops, fails, slack) ==
    LET looped(r) ==
            [ret |-> r.ret, stop |-> IF r.ret < 0 THEN "BUG" ELSE "",
             heap |-> r.heap, now |-> r.now, exec |-> r.exec, ops |-> r.ops]
    IN looped(do_list_loop(list, 1, 0, heap, now, <<>>, ops, fails, slack))

(***************************************************************************)
(* find_list: [stop, lh, known, nodes]; known says that the name was in    *)
(* dt_nodes before the call                                                *)
(***************************************************************************)
RECURSIVE find_list_from(_, _, _)
find_list_from(idx, name, nodes) ==
    IF idx >= Len(nodes)
    THEN [stop |-> "", lh |-> idx + 1, known |-> FALSE,
          nodes |-> Append(nodes, [name |-> name, node |-> <<>>])]
    ELSE IF STREQ(nodes[idx + 1].name, name)
    THEN [stop |-> "", lh |-> idx + 1, known |-> TRUE, nodes |-> nodes]
    ELSE IF idx + 1 = DT_NODES_SIZE
    THEN [stop |-> "BUG", lh |-> 0, known |-> FALSE, nodes |-> nodes]
    ELSE find_list_from(idx + 1, name, nodes)

find_list(name, nodes) == find_list_from(0, name, nodes)

(***************************************************************************)
(* run_list(dev, name), one call from entry to return (or to the stop of   *)
(* the kernel).  Inputs: the name; the positions whose hardware request    *)
(* fails in this call; what every sleep of the call lasts beyond the time  *)
(* asked for; what a read through a NULL pointer does.                     *)
(***************************************************************************)
NoDump == [gpio |-> 0, regulator |-> 0, delay |-> 0, pinctrl |-> 0, timer |-> 0]

NoCall ==
    [name |-> "", known |-> FALSE, made |-> FALSE, mkret |-> 0,
     dumped |-> FALSE, dump |-> NoDump, len |-> 0, ran |-> FALSE,
     exec |-> <<>>, ret |-> 0, stop |-> "", calls |-> <<>>]

\* timer_ops for a heap that grew
PadOps(ops, heap) ==
    [t \in 1..Len(heap) |-> IF t <= Len(ops) THEN ops[t] ELSE 0]

run_list(name, fails, slack, nullrd) ==
    LET fl == find_list(name, dt_nodes) IN
    IF fl.stop # ""
    THEN /\ status' = fl.stop
         /\ last' = [NoCall EXCEPT !.name = name, !.stop = fl.stop]
         /\ UNCHANGED <<dt_nodes, timers, clock, timer_ops>>
    ELSE LET empty == fl.nodes[fl.lh].node = <<>>
             call(ml) == [NoCall EXCEPT !.name = name, !.known = fl.known,
                                        !.made = empty, !.mkret = ml.ret,
                                        !.calls = ml.calls]
             done(ml, lh, dl) ==
                 /\ status' = IF dl.stop # "" THEN dl.stop ELSE status
                 /\ dt_nodes' = ml.nodes
                 /\ timers' = dl.heap
                 /\ timer_ops' = dl.ops
                 /\ clock' = dl.now
                 /\ last' = [call(ml) EXCEPT
                                 !.dumped = empty,
                                 !.dump = IF empty THEN dump_list(lh)
                                          ELSE NoDump,
                                 !.len = Len(lh),
                                 !.ran = TRUE,
                                 !.exec = dl.exec,
                                 !.ret = dl.ret,
                                 !.stop = dl.stop]
             listed(ml, lh, ops) ==
                 IF ml.stop # ""
                 THEN /\ status' = ml.stop
                      /\ dt_nodes' = ml.nodes
                      /\ timers' = ml.heap
                      /\ timer_ops' = ops
                      /\ last' = [call(ml) EXCEPT !.stop = ml.stop]
                      /\ UNCHANGED clock
                 ELSE done(ml, lh,
                           do_list(lh, ml.heap, clock, ops, fails, slack))
             made(ml) ==
                 listed(ml, ml.nodes[fl.lh].node, PadOps(timer_ops, ml.heap))
         IN made(IF empty
                 THEN make_list(name, fl.lh, fl.nodes, timers, nullrd)
                 ELSE [ret |-> 0, stop |-> "", nodes |-> fl.nodes,
                       heap |-> timers, calls |-> <<>>])

\* what a sleep may last beyond the time asked for, in nanoseconds
Slacks == {0, 500}

\* the times that pass between two calls, in nanoseconds
Gaps == {500, 19999000}

\* the list that run_list(name) executes
ListToRun(name, nullrd) ==
    LET fl == find_list(name, dt_nodes) IN
    IF fl.stop # "" THEN <<>>
    ELSE IF fl.nodes[fl.lh].node # <<>> THEN fl.nodes[fl.lh].node
    ELSE LET made(ml) == IF ml.stop # "" THEN <<>> ELSE ml.nodes[fl.lh].node
         IN made(make_list(name, fl.lh, fl.nodes, timers, nullrd))

\* the inputs of a call that its outcome can depend on: the positions of
\* the list that make a hardware request, a slack when the list can sleep,
\* and the two outcomes of a NULL read when the build makes one
HwPositions(list) ==
    {k \in 1..Len(list) :
        list[k].idx \in {ACTION_GPIO_HIGH, ACTION_GPIO_LOW,
                         ACTION_REGULATOR_ENABLE, ACTION_REGULATOR_DISABLE}}

SlacksOf(list) ==
    IF \E k \in 1..Len(list) :
          list[k].idx \in {ACTION_DELAY_MDELAY, ACTION_DELAY_MSLEEP,
                           ACTION_DELAY_USLEEP, ACTION_TIMER_DELAY}
    THEN Slacks ELSE {0}

NullReads(name) ==
    LET fl == find_list(name, dt_nodes) IN
    IF fl.stop = "" /\ fl.nodes[fl.lh].node = <<>>
          /\ make_list(name, fl.lh, fl.nodes, timers, TRUE)
                # make_list(name, fl.lh, fl.nodes, timers, FALSE)
    THEN BOOLEAN ELSE {FALSE}

RunList ==
    /\ status = "run"
    /\ clock.ms < MaxClockMsec
    /\ \E name \in DOMAIN dts.sub :
         \E nullrd \in NullReads(name) :
           \E fails \in SUBSET HwPositions(ListToRun(name, nullrd)),
              slack \in SlacksOf(ListToRun(name, nullrd)) :
                /\ slack # 0 => nticks < MaxTicks
                /\ nticks' = IF slack # 0 THEN nticks + 1 ELSE nticks
                /\ run_list(name, fails, slack, nullrd)
    /\ UNCHANGED <<dts, lcdtype>>

\* time passes between two calls of run_list
Elapse ==
    /\ status = "run"
    /\ nticks < MaxTicks
    /\ \E gap \in Gaps : clock' = TimeAddNsec(clock, gap)
    /\ nticks' = nticks + 1
    /\ last' = NoCall
    /\ UNCHANGED <<dts, lcdtype, dt_nodes, timers, status, timer_ops>>

(***************************************************************************)
(* The device trees of the model.                                          *)
(***************************************************************************)
Pair(type, subinfo) == <<type, subinfo>>

Range(f) == {f[x] : x \in DOMAIN f}

\* the sequences of at most n pairs of a pool, as lists of strings
RECURSIVE TypeLists(_, _)
TypeLists(pool, n) ==
    IF n = 0 THEN {<<>>}
    ELSE LET shorter == TypeLists(pool, n - 1) IN
         shorter \cup {l \o p : l \in shorter, p \in pool}

NoNode == [node |-> FALSE, prop |-> FALSE, type |-> <<>>]

NoProp == [node |-> TRUE, prop |-> FALSE, type |-> <<>>]

Node(type) == [node |-> TRUE, prop |-> TRUE, type |-> type]

\* the declarations over a pool: no node, no "type" property, and every
\* list of at most n pairs, also with a string left over
Decls(pool, n) ==
    {NoNode, NoProp}
        \cup {Node(l) : l \in TypeLists(pool, n)}
        \cup {Node(l \o <<"gpio,high">>) : l \in TypeLists(pool, n - 1)}

\* the pairs of the sequences that drive the panel
PanelPool ==
    {Pair("gpio,high", "gpio_lcd_en"),
     Pair("regulator,enable", "ldo1"),
     Pair("regulator,disable", "ldo9"),
     Pair("delay,usleep", "10000"),
     Pair("pinctrl", "pin_on"),
     Pair("lcd,reset", "gpio_lcd_en"),
     Pair("timer,check", "loading"),
     Pair("", "ldo1")}

\* the pairs of the sequences that use a timer
TimerPool ==
    {Pair("timer,start", "loading 20"),
     Pair("timer,start", "loading 5000000"),
     Pair("timer,delay", "loading"),
     Pair("timer,clear", "loading")}

\* the pairs whose subinfo is a number or a name with a number: the
\* examples of the header comment, the limits of the checks, and numbers
\* that are missing, too many or longer than the field of "%8d"
ParsePool ==
    {Pair("delay,usleep", "10000"),
     Pair("delay,usleep", "10000 11000"),
     Pair("delay,usleep", "0"),
     Pair("delay,usleep", "1"),
     Pair("delay,usleep", "25000"),
     Pair("delay,usleep", "19999 0"),
     Pair("delay,usleep", "300 200"),
     Pair("delay,usleep", "100 200 300"),
     Pair("delay,usleep", "100 123456789"),
     Pair("timer,start", "loading 300"),
     Pair("timer,start", "loading 10"),
     Pair("timer,start", "loading")}

\* a board without the decon_board property, whatever its nodes
NoBoard == [board |-> FALSE, sub |-> [n \in SeqNames |-> NoNode]]

Board(sub1, sub2) ==
    [board |-> TRUE,
     sub |-> [n \in SeqNames |-> IF n = "subnode_1" THEN sub1 ELSE sub2]]

InitRest ==
    /\ dt_nodes = <<>>
    /\ timers = <<>>
    /\ status = "run"
    /\ timer_ops = <<>>
    /\ last = NoCall

\* panel sequences: subnode_1 is any declaration over PanelPool, subnode_2
\* is absent or awaits a timer; time passes once
Init ==
    /\ dts \in {NoBoard} \cup
               {Board(sub1, sub2) :
                   sub1 \in Decls(PanelPool, MaxPairs),
                   sub2 \in {NoNode, Node(Pair("timer,delay", "loading"))}}
    /\ lcdtype \in {0, 1}
    /\ nticks = MaxTicks - 1
    /\ clock = TimeZero
    /\ InitRest

\* timer sequences: subnode_1 is any list over TimerPool, subnode_2 awaits
\* the timer or starts it with another delay
InitTimer ==
    /\ dts \in {Board(Node(l), Node(p)) :
                   l \in TypeLists(TimerPool, MaxPairs),
                   p \in {Pair("timer,start", "loading 5000000"),
                          Pair("timer,delay", "loading")}}
    /\ lcdtype = 1
    /\ nticks = 0
    /\ clock = TimeZero
    /\ InitRest

\* parsed sequences: subnode_1 is any list over ParsePool, subnode_2 is
\* absent; time passes once; the first call comes a few microseconds
\* before the clock reaches MaxClockMsec, which leaves room for some calls
\* of the shortest sleep
InitParse ==
    /\ dts \in {Board(Node(l), NoNode) : l \in TypeLists(ParsePool, MaxPairs)}
    /\ lcdtype \in {0, 1}
    /\ nticks = MaxTicks - 1
    /\ clock = Time(MaxClockMsec - 1, NSEC_PER_MSEC - 3 * NSEC_PER_USEC)
    /\ InitRest

\* the names of a driver that runs more sequences than dt_nodes has places:
\* FilledNames were run, in this order, before the first state; FreeNames
\* are run in any order
FilledNames ==
    <<"subnode_3", "subnode_4", "subnode_5", "subnode_6", "subnode_7",
      "subnode_8", "subnode_9", "subnode_10">>

FreeNames == SeqNames \cup {"subnode_11"}

\* the pairs of the sequences that fill dt_nodes: valid ones, with and
\* without a timer
CapPool ==
    {Pair("pinctrl", "pin_on"),
     Pair("timer,start", "loading 20"),
     Pair("timer,clear", "loading")}

\* dt_nodes after run_list was called for names[1], names[2], ... in turn,
\* for sequences without timers and without sleeps: find_list has given
\* names[k] the k-th place, and make_list has built its list, which does
\* not depend on the lists built before it
RunAll(names) ==
    [k \in 1..Len(names) |->
        make_list(names[k], 1, <<[name |-> names[k], node |-> <<>>]>>,
                  <<>>, FALSE).nodes[1]]

\* a full cache: the sequences of FilledNames set a pin state and have been
\* run once each, the sequences of FreeNames are one pair of CapPool each
\* and have not been run; time passes once
InitCapacity ==
    /\ dts \in {[board |-> TRUE,
                 sub |-> [n \in FreeNames \cup Range(FilledNames) |->
                             IF n \in FreeNames THEN Node(f[n])
                             ELSE Node(Pair("pinctrl", "pin_on"))]] :
                   f \in [FreeNames -> CapPool]}
    /\ lcdtype = 1
    /\ nticks = MaxTicks - 1
    /\ clock = TimeZero
    /\ dt_nodes = RunAll(FilledNames)
    /\ timers = <<>>
    /\ status = "run"
    /\ timer_ops = <<>>
    /\ last = NoCall

Next == RunList \/ Elapse

Spec == Init /\ [][Next]_vars

SpecTimer == InitTimer /\ [][Next]_vars

SpecParse == InitParse /\ [][Next]_vars

SpecCapacity == InitCapacity /\ [][Next]_vars

(***************************************************************************)
(* What the claims speak of.                                               *)
(***************************************************************************)
\* the position of a name in dt_nodes, 0 when run_list never saw it
NodeOf(name) ==
    IF \E n \in 1..Len(dt_nodes) : dt_nodes[n].name = name
    THEN CHOOSE n \in 1..Len(dt_nodes) : dt_nodes[n].name = name
    ELSE 0

\* the list of a name, empty when run_list never saw it
ListOf(name) == IF NodeOf(name) = 0 THEN <<>> ELSE dt_nodes[NodeOf(name)].node

\* the declaration has a node whose "type" strings cannot be paired
OddOrZeroStrings(name) ==
    LET sub == dts.sub[name] IN
    /\ dts.board
    /\ sub.node
    /\ (~sub.prop \/ Len(sub.type) = 0 \/ Len(sub.type) % 2 = 1)

\* the declaration has a node with a positive even number of strings
PairedStrings(name) ==
    LET sub == dts.sub[name] IN
    /\ dts.board
    /\ sub.node
    /\ sub.prop
    /\ Len(sub.type) > 0
    /\ Len(sub.type) % 2 = 0

\* the (type, subinfo) pairs of a declaration, in its order
DeclPairs(name) ==
    LET strs == dts.sub[name].type IN
    [i \in 1..(Len(strs) \div 2) |-> <<strs[2 * i - 1], strs[2 * i]>>]

StartsWith(s, prefix) ==
    Len(s) >= Len(prefix) /\ SubSeq(s, 1, Len(prefix)) = prefix

DelayOrTimer(pair) == StartsWith(pair[1], "delay") \/ StartsWith(pair[1], "timer")

\* the pairs that the variant identifier lets through
GatedPairs(name) ==
    IF lcdtype # 0 THEN DeclPairs(name)
    ELSE SelectSeq(DeclPairs(name), DelayOrTimer)

\* the type is empty or no enumerated type is a prefix of it
BadType(type) ==
    \/ type = ""
    \/ \A i \in DOMAIN action_list : ~StartsWith(type, action_list[i])

\* the (type, subinfo) pairs of a list or of an execution log
PairsOf(seq) == [k \in 1..Len(seq) |-> <<seq[k].type, seq[k].subinfo>>]

IsPrefix(a, b) == Len(a) <= Len(b) /\ SubSeq(b, 1, Len(a)) = a

\* an entry of the log without any effect on hardware, time or timers
InertEntry(e) ==
    /\ e.idx = ACTION_DUMMY
    /\ e.hw = 0
    /\ e.sleep = NoSleep
    /\ e.timer = 0
    /\ e.t1 = e.t0

Awaits == {k \in 1..Len(last.exec) : last.exec[k].idx = ACTION_TIMER_DELAY}

(***************************************************************************)
(* C1: the builder is invoked for a name at most once: only the first      *)
(* run_list call of a name, the one that puts the name into the cache,     *)
(* calls make_list.  (Fails: with lcdtype zero a declaration of skipped    *)
(* pairs only leaves the list empty, and every call builds again.)         *)
(***************************************************************************)
C1_BuiltOnlyOnFirstCall == last.made => ~last.known

(***************************************************************************)
(* C2: a declaration with an odd or zero or unreadable number of strings   *)
(* leaves exactly one inert placeholder in the list, without a stop of the *)
(* kernel; the first call builds, no later call builds again, and no call  *)
(* has any hardware, delay or timer effect.                                *)
(***************************************************************************)
C2_OddCountLeavesInertPlaceholder ==
    \A name \in SeqNames :
        OddOrZeroStrings(name) =>
            /\ NodeOf(name) # 0 => ListOf(name) = <<ZeroAction>>
            /\ last.name = name =>
                  /\ last.stop = ""
                  /\ last.ran
                  /\ last.made = ~last.known
                  /\ Len(last.exec) = 1
                  /\ InertEntry(last.exec[1])

C2_Witness ==
    /\ last.name # ""
    /\ OddOrZeroStrings(last.name)
    /\ dts.sub[last.name].prop
    /\ last.known
    /\ last.ran

(***************************************************************************)
(* C3: a hardware request that fails during execution is swallowed: the    *)
(* call returns without a stop of the kernel.  (Fails: do_list ends in     *)
(* BUG() when the last hardware request of the list failed.)               *)
(***************************************************************************)
C3_HardwareFailureSwallowed ==
    (last.ran /\ \E k \in 1..Len(last.exec) : last.exec[k].hw < 0)
        => last.stop = ""

(***************************************************************************)
(* C4: a call on a built sequence executes every action of the list once,  *)
(* in the order of the pairs of the declaration (those that the variant    *)
(* identifier lets through), the first call included.                      *)
(***************************************************************************)
C4_ExecutesEachActionOnceInOrder ==
    (last.ran /\ PairedStrings(last.name)) =>
        /\ PairsOf(last.exec) = GatedPairs(last.name)
        /\ PairsOf(ListOf(last.name)) = GatedPairs(last.name)
        /\ \A k \in 1..Len(last.exec) : last.exec[k].pos = k

C4_Witness ==
    /\ last.ran
    /\ last.known
    /\ PairedStrings(last.name)
    /\ Len(last.exec) = 2
    /\ last.exec[1].type # last.exec[2].type

(***************************************************************************)
(* C5: when a timer-await is the next operation on a timer after a         *)
(* timer-start at t0, it returns no earlier than t0 plus the delay of the  *)
(* timer.  (Fails: the remaining time is cut to whole microseconds or      *)
(* milliseconds, and no sleep happens below 1 us or above UINT_MAX us.)    *)
(***************************************************************************)
C5_AwaitReturnsAfterDelay ==
    \A k \in Awaits :
        LET e == last.exec[k] IN
        e.prev = ACTION_TIMER_START =>
            ~TimeLess(e.t1, TimeAddMsec(e.before.start, e.before.delay))

(***************************************************************************)
(* C6: after every timer-await the end of the timer is zero.  (Fails: the  *)
(* break below 1 us and above UINT_MAX us leaves the switch before the     *)
(* fall through into timer-clear.)                                         *)
(***************************************************************************)
C6_AwaitClearsEnd ==
    \A k \in Awaits : last.exec[k].after.end = TimeZero

(***************************************************************************)
(* C7: a timer-await with now < end sleeps for the remaining time, with a  *)
(* ranged sleep below 20 ms and a coarse sleep otherwise, the remaining    *)
(* time taken in the unit of the sleep.  (Fails: no sleep below 1 us and   *)
(* above UINT_MAX us.)                                                     *)
(***************************************************************************)
C7_AwaitSleepsRemaining ==
    \A k \in Awaits :
        LET e == last.exec[k]
            rem == TimeSub(e.before.end, e.t0)
        IN (e.before.end # TimeZero /\ TimeLess(e.t0, e.before.end)) =>
              IF rem.ms < SMALL_MSECS
              THEN /\ e.sleep.fn = "usleep_range"
                   /\ e.sleep.lo = rem.ms * USEC_PER_MSEC
                                      + (rem.ns \div NSEC_PER_USEC)
              ELSE /\ e.sleep.fn = "msleep"
                   /\ e.sleep.lo = rem.ms

(***************************************************************************)
(* C8: a timer-await on a timer whose end is set and not after now does    *)
(* not sleep and takes no time.                                            *)
(***************************************************************************)
C8_ElapsedAwaitDoesNotSleep ==
    \A k \in Awaits :
        LET e == last.exec[k] IN
        (e.before.end # TimeZero /\ ~TimeLess(e.t0, e.before.end)) =>
            /\ e.sleep = NoSleep
            /\ e.t1 = e.t0

C8_Witness ==
    \E k \in Awaits :
        LET e == last.exec[k] IN
        /\ e.before.end # TimeZero
        /\ TimeLess(e.before.end, e.t0)

(***************************************************************************)
(* C9: a timer-await on a timer that was never operated on, or whose last  *)
(* operation was a timer-clear or a timer-await, coarse-sleeps the full    *)
(* delay of the timer.  (Fails: an await that took the break of C6 leaves  *)
(* the end set, and the next await does not sleep the delay.)              *)
(***************************************************************************)
C9_AwaitAfterAwaitSleepsFullDelay ==
    \A k \in Awaits :
        LET e == last.exec[k] IN
        e.prev \in {0, ACTION_TIMER_CLEAR, ACTION_TIMER_DELAY} =>
            e.sleep = Sleep("msleep", e.before.delay, 0)

(***************************************************************************)
(* C10 as claimed: a build of a declaration with a pair of a bad type      *)
(* stops the kernel, whatever the variant identifier.                      *)
(***************************************************************************)
C10_BadTypeAlwaysAborts ==
    (/\ last.made
     /\ PairedStrings(last.name)
     /\ \E i \in 1..Len(DeclPairs(last.name)) :
            BadType(DeclPairs(last.name)[i][1]))
        => last.stop # ""

(***************************************************************************)
(* C10 as amended: a build stops at the first pair of a bad type that the  *)
(* variant identifier lets through: the kernel stops, nothing is executed, *)
(* the list holds no more than the pairs let through before that pair, and *)
(* when it holds them all the stop is the BUG() of make_list.              *)
(***************************************************************************)
FirstBadGated(name) ==
    LET g == GatedPairs(name)
        bad == {i \in 1..Len(g) : BadType(g[i][1])}
    IN IF bad = {} THEN 0 ELSE CHOOSE i \in bad : \A j \in bad : i <= j

C10_AbortsAtFirstGatedBadType ==
    (/\ last.made
     /\ PairedStrings(last.name)
     /\ FirstBadGated(last.name) # 0)
        => /\ last.stop \in {"BUG", "fault"}
           /\ ~last.ran
           /\ Len(ListOf(last.name)) < FirstBadGated(last.name)
           /\ IsPrefix(PairsOf(ListOf(last.name)), GatedPairs(last.name))
           /\ Len(ListOf(last.name)) = FirstBadGated(last.name) - 1
                 => last.stop = "BUG"

C10_Witness ==
    /\ last.made
    /\ PairedStrings(last.name)
    /\ lcdtype = 0
    /\ FirstBadGated(last.name) = 2
    /\ Len(ListOf(last.name)) = 1
    /\ last.stop = "BUG"

(***************************************************************************)
(* C11: a build with the variant identifier zero makes no lookup of a      *)
(* GPIO, regulator or pinctrl state, and puts no GPIO, regulator or        *)
(* pinctrl action into the list; the list holds pairs of the declaration   *)
(* whose type starts with "delay" or "timer", in their order, and all of   *)
(* them when the build returns.                                            *)
(***************************************************************************)
HardwareIdx ==
    {ACTION_GPIO_HIGH, ACTION_GPIO_LOW, ACTION_REGULATOR_ENABLE,
     ACTION_REGULATOR_DISABLE, ACTION_PINCTRL}

C11_VariantZeroKeepsDelayAndTimerOnly ==
    (last.made /\ lcdtype = 0 /\ PairedStrings(last.name)) =>
        LET kept == SelectSeq(DeclPairs(last.name), DelayOrTimer)
            list == ListOf(last.name)
        IN /\ last.calls = <<>>
           /\ \A k \in 1..Len(list) : list[k].idx \notin HardwareIdx
           /\ IsPrefix(PairsOf(list), kept)
           /\ last.stop = "" => PairsOf(list) = kept

C11_Witness ==
    /\ last.made
    /\ lcdtype = 0
    /\ PairedStrings(last.name)
    /\ last.stop = ""
    /\ Len(DeclPairs(last.name)) = 2
    /\ Len(ListOf(last.name)) = 1
    /\ \E i \in 1..2 : StartsWith(DeclPairs(last.name)[i][1], "gpio")

(***************************************************************************)
(* The numbers that a subinfo string declares: its decimal integers,       *)
(* separated by white space, up to the first thing that is no integer.     *)
(***************************************************************************)
RECURSIVE DeclIntsFrom(_, _)
DeclIntsFrom(s, p) ==
    LET int(q, e) == <<DigitsNumber(s, q, e, 10, 0)>> \o DeclIntsFrom(s, e)
        at(q) == IF q > Len(s) \/ ~isdigit(Char(s, q)) THEN <<>>
                 ELSE int(q, DigitsEnd(s, q, 10))
    IN at(skip_spaces(s, p))

DeclInts(s) == DeclIntsFrom(s, 1)

\* the positions of the pairs of a type among those let through
GatedOfType(name, type) ==
    {i \in 1..Len(GatedPairs(name)) : GatedPairs(name)[i][1] = type}

\* the build of the last step was of a declaration of pairs
BuiltPairs == last.made /\ PairedStrings(last.name)

\* the build of the last step stopped at or before pair i without adding it
RejectedAt(i) == last.stop # "" /\ ~last.ran /\ Len(ListOf(last.name)) < i

(***************************************************************************)
(* C12: a delay,usleep pair that declares more than two integers fails the *)
(* build.  (Fails: sscanf("%8d %8d") never returns more than 2, so the     *)
(* test ret > 2 is never true and the first two integers are taken.)       *)
(***************************************************************************)
C12_MoreThanTwoIntegersRejected ==
    BuiltPairs =>
        \A i \in GatedOfType(last.name, "delay,usleep") :
            Len(DeclInts(GatedPairs(last.name)[i][2])) > 2 => RejectedAt(i)

(***************************************************************************)
(* C13: every delay,usleep action in a list has 0 < lo <= hi and           *)
(* lo < 20000; a delay,usleep pair that is read as lo = 0, hi = 0,         *)
(* lo > hi or lo >= 20000 stops the build and is not added to the list.    *)
(* lo and hi are the numbers that the builder reads from the pair.         *)
(***************************************************************************)
ReadInvalid(subinfo) ==
    LET sc == sscanf_d_d(subinfo) IN
    \/ sc.d0 = 0
    \/ sc.d0 >= SMALL_MSECS * USEC_PER_MSEC
    \/ (sc.num = 2 /\ (sc.d1 = 0 \/ sc.d0 > sc.d1))

C13_RangedSleepInListIsValid ==
    /\ \A name \in SeqNames :
          \A k \in 1..Len(ListOf(name)) :
              LET a == ListOf(name)[k] IN
              a.idx = ACTION_DELAY_USLEEP =>
                  /\ 0 < a.delay[1]
                  /\ a.delay[1] <= a.delay[2]
                  /\ a.delay[1] < SMALL_MSECS * USEC_PER_MSEC
    /\ BuiltPairs =>
          \A i \in GatedOfType(last.name, "delay,usleep") :
              ReadInvalid(GatedPairs(last.name)[i][2]) => RejectedAt(i)

C13_Witness ==
    /\ BuiltPairs
    /\ last.stop = "BUG"
    /\ Len(ListOf(last.name)) = 1
    /\ ListOf(last.name)[1].idx = ACTION_DELAY_USLEEP
    /\ GatedPairs(last.name)[2] = <<"delay,usleep", "300 200">>

(***************************************************************************)
(* C14: a delay,usleep pair that declares one integer lo is stored as      *)
(* (lo, lo + (lo >> 1)), plus 1 when that is lo; a pair that declares two  *)
(* integers is stored as declared; "0" and "25000" fail the build.         *)
(* (Fails: an integer of more than eight digits is cut to its first eight  *)
(* digits by "%8d".)                                                       *)
(***************************************************************************)
AutoFill(lo) == IF lo + (lo \div 2) = lo THEN lo + (lo \div 2) + 1
                ELSE lo + (lo \div 2)

C14_RangedSleepValuesAsDeclared ==
    /\ \A name \in SeqNames :
          \A k \in 1..Len(ListOf(name)) :
              LET a == ListOf(name)[k]
                  ints == DeclInts(a.subinfo)
              IN a.idx = ACTION_DELAY_USLEEP =>
                    /\ Len(ints) = 1 => a.delay = <<ints[1], AutoFill(ints[1])>>
                    /\ Len(ints) = 2 => a.delay = <<ints[1], ints[2]>>
    /\ BuiltPairs =>
          \A i \in GatedOfType(last.name, "delay,usleep") :
              GatedPairs(last.name)[i][2] \in {"0", "25000"} => RejectedAt(i)

(***************************************************************************)
(* C15: a timer,start pair that is no name followed by an integer, or      *)
(* whose delay is below 20 ms, is rejected by the BUG() of make_list and   *)
(* is not added to the list.  (Fails: when the pair is malformed,          *)
(* action->timer is NULL and action->timer->delay is read through it.)     *)
(***************************************************************************)
TimerStartInvalid(subinfo) ==
    LET sc == sscanf_s_d(subinfo) IN sc.num # 2 \/ sc.delay < SMALL_MSECS

C15_BadTimerStartRejected ==
    BuiltPairs =>
        \A i \in GatedOfType(last.name, "timer,start") :
            TimerStartInvalid(GatedPairs(last.name)[i][2]) =>
                /\ RejectedAt(i)
                /\ last.stop = "BUG"

(***************************************************************************)
(* C16: there is at most one timer per name: the timer actions of all      *)
(* lists that name the same timer hold the same timer_info, which carries  *)
(* that name, and no two timer_info objects carry the same name; a         *)
(* timer_info, once allocated, stays.                                      *)
(***************************************************************************)
TimerIdx == {ACTION_TIMER_START, ACTION_TIMER_DELAY, ACTION_TIMER_CLEAR}

\* the timer actions of all lists, each with the position of its list
TimerActions ==
    UNION {{<<n, k>> : k \in {j \in 1..Len(dt_nodes[n].node) :
                                 dt_nodes[n].node[j].idx \in TimerIdx}} :
           n \in 1..Len(dt_nodes)}

ActionAt(nk) == dt_nodes[nk[1]].node[nk[2]]

\* the name that a timer action declares
NamedTimer(a) ==
    IF a.idx = ACTION_TIMER_START THEN ScanWord(a.subinfo, 1).str
    ELSE a.subinfo

OneTimerPerName ==
    /\ \A x \in TimerActions :
          /\ ActionAt(x).timer \in 1..Len(timers)
          /\ timers[ActionAt(x).timer].name = NamedTimer(ActionAt(x))
    /\ \A x, y \in TimerActions :
          NamedTimer(ActionAt(x)) = NamedTimer(ActionAt(y))
              => ActionAt(x).timer = ActionAt(y).timer
    /\ \A t, u \in 1..Len(timers) :
          timers[t].name = timers[u].name => t = u

TimersStay ==
    /\ Len(timers') >= Len(timers)
    /\ \A t \in 1..Len(timers) : timers'[t].name = timers[t].name

C16_OneTimerPerName == [](OneTimerPerName) /\ [][TimersStay]_vars

\* an await of one sequence finds the end that a start of another set
C16_Witness ==
    /\ last.ran
    /\ \E k \in Awaits :
          /\ last.exec[k].prev = ACTION_TIMER_START
          /\ last.exec[k].before.end # TimeZero
    /\ \E x, y \in TimerActions :
          /\ x[1] # y[1]
          /\ ActionAt(x).idx = ACTION_TIMER_START
          /\ ActionAt(y).idx = ACTION_TIMER_DELAY
          /\ ActionAt(y).subinfo = NamedTimer(ActionAt(x))
          /\ dt_nodes[y[1]].name = last.name
          /\ Len(dt_nodes[y[1]].node) = 1

(***************************************************************************)
(* C17: when a build stops at an invalid pair, the list of the sequence    *)
(* is empty in the state reached, and nothing was executed.  (Fails: only  *)
(* the failing action is freed; the actions added before it stay in the    *)
(* list.)                                                                  *)
(***************************************************************************)
C17_AbortDiscardsPartialList ==
    (BuiltPairs /\ last.stop = "BUG") =>
        /\ ListOf(last.name) = <<>>
        /\ ~last.ran
        /\ last.exec = <<>>

(***************************************************************************)
(* C18 as claimed: the list that a call dumps has as many actions as the   *)
(* five counters of the summary add up to, a placeholder list included.    *)
(***************************************************************************)
DumpSum(d) == d.gpio + d.regulator + d.delay + d.pinctrl + d.timer

C18_DumpCountsEveryAction ==
    last.dumped => last.len = DumpSum(last.dump)

(***************************************************************************)
(* C18 as amended: the list that a call dumps after a build that did not   *)
(* end in a placeholder has as many actions as the five counters add up    *)
(* to; the action of a placeholder list is counted by none of them.        *)
(***************************************************************************)
C18_DumpCountsEveryBuiltAction ==
    last.dumped =>
        /\ DumpSum(last.dump) =
              Cardinality({k \in 1..last.len :
                              ListOf(last.name)[k].idx # ACTION_DUMMY})
        /\ last.mkret >= 0 => last.len = DumpSum(last.dump)
        /\ last.mkret < 0 => (last.len = 1 /\ DumpSum(last.dump) = 0)

C18_Witness ==
    /\ last.dumped
    /\ last.mkret >= 0
    /\ last.len = 2
    /\ last.dump.gpio = 1
    /\ last.dump.pinctrl = 1

(***************************************************************************)
(* C19: a pair of the type "timer,check" with a timer name is accepted by  *)
(* the build and added to the list as the timer-await action.  (Fails:     *)
(* action_list holds "timer,delay" for that action and no "timer,check",   *)
(* so decide_type rejects the type of the header comment and the build     *)
(* stops.)                                                                 *)
(***************************************************************************)
C19_TimerCheckIsTheAwait ==
    BuiltPairs =>
        \A i \in GatedOfType(last.name, "timer,check") :
            Len(ListOf(last.name)) >= i - 1 =>
                /\ Len(ListOf(last.name)) >= i
                /\ ListOf(last.name)[i].idx = ACTION_TIMER_DELAY

(***************************************************************************)
(* C20: an executed timer-start sets the start of its timer to now and the *)
(* end to now plus the delay that the parameter of that action declares.   *)
(* (Fails: the delay is kept in the timer_info, not in the action, and the *)
(* build of a later timer-start of the same timer overwrites it.)          *)
(***************************************************************************)
C20_StartUsesItsOwnDelay ==
    \A k \in 1..Len(last.exec) :
        LET e == last.exec[k] IN
        e.idx = ACTION_TIMER_START =>
            /\ e.after.start = e.t0
            /\ e.after.end = TimeAddMsec(e.t0, sscanf_s_d(e.subinfo).delay)

(***************************************************************************)
(* C21: with valid declarations and hardware that does not fail, the       *)
(* kernel stops in a call of run_list only when dt_nodes is full and the   *)
(* name of the call is not in it: the name was not known before the call   *)
(* and has found no place.  (Fails: find_timer runs the same BUG_ON after  *)
(* the tenth dt_node, so the build of the tenth sequence stops when it     *)
(* names a timer that no list has yet.)                                    *)
(***************************************************************************)
CachedNames == {dt_nodes[i].name : i \in 1..Len(dt_nodes)}

C21_CapacityAbortOnlyAtEleventhName ==
    last.stop = "BUG" =>
        /\ Len(dt_nodes) = DT_NODES_SIZE
        /\ ~last.known
        /\ last.name \notin CachedNames

(***************************************************************************)
(* C22: when another name has an inert placeholder list, the first call    *)
(* for a name whose declaration is valid timer pairs (start with a name    *)
(* and a delay of 20 ms or more, await, clear) builds the list, does not   *)
(* stop the kernel and executes every pair.  (Fails: find_timer walks      *)
(* every list of dt_nodes and compares action->type of each action with    *)
(* "timer"; the type of the placeholder action is NULL, and the read       *)
(* through it can fault.)                                                  *)
(***************************************************************************)
PlaceholderElsewhere ==
    \E i \in 1..Len(dt_nodes) :
        dt_nodes[i].name # last.name /\ dt_nodes[i].node = <<ZeroAction>>

ValidTimerPair(pair) ==
    \/ pair[1] \in {"timer,delay", "timer,clear"} /\ pair[2] # ""
    \/ pair[1] = "timer,start" /\ ~TimerStartInvalid(pair[2])

ValidTimerDecl(name) ==
    /\ PairedStrings(name)
    /\ \A i \in 1..Len(GatedPairs(name)) : ValidTimerPair(GatedPairs(name)[i])

C22_PlaceholderLeavesOthersAlone ==
    (last.made /\ PlaceholderElsewhere /\ ValidTimerDecl(last.name)) =>
        /\ last.stop = ""
        /\ last.ran
        /\ PairsOf(last.exec) = GatedPairs(last.name)

(***************************************************************************)
(* C23: an executed GPIO action releases the GPIO exactly when its request *)
(* for the GPIO succeeded: no release after a failed request, and a        *)
(* release after every request that succeeded.  (Fails: gpio_free follows  *)
(* gpio_request_one without a look at what the request returned.)          *)
(***************************************************************************)
GpioIdx == {ACTION_GPIO_HIGH, ACTION_GPIO_LOW}

C23_ReleasesOnlyWhatItAcquired ==
    \A k \in 1..Len(last.exec) :
        last.exec[k].idx \in GpioIdx =>
            (last.exec[k].gpio_free <=> last.exec[k].hw >= 0)

====
